---- MODULE Spec2Model ----
(***************************************************************************)
(* QuantumPurse key-vault: password-authenticated encryption (scrypt +     *)
(* AES-256-GCM, hex-encoded payloads), index-based SPHINCS+ child-key      *)
(* derivation, and the IndexedDB-backed seed and child-key stores.         *)
(*                                                                         *)
(* Representation.  A byte string is a sequence over 0..255; a text string *)
(* is the sequence of its ASCII codes.  The external primitives (scrypt,   *)
(* AES-GCM, ChaCha8 + SLH-DSA keygen, the OS random source) are idealised  *)
(* in the usual symbolic way: the KDF output keeps its inputs, the AEAD    *)
(* tag and the generated keys are checksums that are collision-free on     *)
(* the inputs the model explores, and the random source never repeats.     *)
(***************************************************************************)
EXTENDS Integers, Sequences, FiniteSets, TLC

VARIABLES
    rngCount,      \* number of draws taken from the OS random source so far
    encLog,        \* the encrypt calls made: [password, input, payload]
    lastDec,       \* the last decrypt call: [cause, expect, result]
    failWrongPw,   \* outcome of the last decrypt that failed on a wrong password
    failCorrupt,   \* outcome of the last decrypt that failed on a corrupted payload
    deriveLog,     \* the last two derivations: [fn, n, seed, index, draws, kdf, result]
    lastSign,      \* the sphincs_sign! just expanded and run, if any: [n, pri_key,
                   \* outcome, result] and pri_key_array as the exit left it
    seed_store,    \* SEED_PHRASE_STORE: the records [key, value]
    keys_store,    \* CHILD_KEYS_STORE: the records, one per pub_key
    task,          \* per logical task: the call it is in and where it is suspended
    opsStarted,    \* number of KeyVault calls started so far
    insertOrder,   \* the public keys stored, in the order they were inserted
    lastAdd,       \* the add_key_pair of the step just taken, if any: [before,
                   \* pair, after, result] and the password and derived keys
                   \* of the call that made it
    lastList,      \* the get_all_sphincs_pub that just returned, if any:
                   \* [delivered, inserted, result]
    seedPassword,  \* the password the stored master secret was encrypted with
    lastCall       \* the KeyVault call that just returned, if any: what it was
                   \* given, what it found, what it returned, the stores
                   \* around its last step

codecVars == <<encLog, lastDec, failWrongPw, failCorrupt, deriveLog, lastSign>>

vaultVars ==
    <<seed_store, keys_store, task, opsStarted, insertOrder, lastAdd, lastList,
      lastCall, seedPassword>>

vars == <<rngCount, codecVars, vaultVars>>

----------------------------------------------------------------------------
(* Bounds of the model *)

\* draws the random source may serve in one behaviour
MaxDraws == 2

\* KeyVault calls started in one behaviour
MaxOps == 3

----------------------------------------------------------------------------
(* Inputs *)

\* two passwords with the same bytes in a different order
Passwords == {<<80, 49>>, <<49, 80>>}

\* the empty plaintext and a two-byte one
Plaintexts == {<<>>, <<255, 1>>}

\* master secrets: 96 bytes (enough for every variant) and a short one
Seeds == {[i \in 1..96 |-> i] \o <<>>, <<7, 7, 7>>}

\* account indices of one and of several digits, up to the largest integer
\* TLC represents (the code's range ends at 4294967295)
Indices == {0, 1, 10, 2147483647}

\* native secret lengths N of the three security classes
NativeLens == {16, 24, 32}

\* the logical tasks whose calls interleave at the store's suspension points
TaskOrder == <<"t1", "t2">>

Tasks == {TaskOrder[i] : i \in 1..Len(TaskOrder)}

\* the count argument of recover_accounts
Counts == {2}

\* the phrase import_seed_phrase is given (any bytes: it is not validated)
SeedPhrases == {<<7, 7, 7>>}

\* the small start indices of gen_account_batch
Starts == {1}

\* the messages signed
Messages == {<<1>>}

----------------------------------------------------------------------------
(* constants.rs *)

SALT_LENGTH == 16
IV_LENGTH == 12

\* "ckb/quantum-purse/sphincs-plus/" as ASCII
KDF_PATH_PREFIX ==
    <<99, 107, 98, 47, 113, 117, 97, 110, 116, 117, 109, 45, 112, 117, 114,
      115, 101, 47, 115, 112, 104, 105, 110, 99, 115, 45, 112, 108, 117, 115, 47>>

KDF_SCRYPT == [log_n |-> 10, r |-> 8, p |-> 1, len |-> 32]
ENC_SCRYPT == [log_n |-> 14, r |-> 8, p |-> 1, len |-> 32]

----------------------------------------------------------------------------
(* Results: Ok(val), Err(err), or a panic (unwrap / expect / slice bounds) *)

Ok(v) == [tag |-> "Ok", val |-> v, err |-> ""]
Err(e) == [tag |-> "Err", val |-> <<>>, err |-> e]
Panic(e) == [tag |-> "Panic", val |-> <<>>, err |-> e]
IsOk(res) == res.tag = "Ok"

----------------------------------------------------------------------------
(* Byte-string helpers *)

RECURSIVE SumOver(_, _, _, _)
\* sum of s[lo..hi], each byte weighted by its position when w, modulo 256
SumOver(s, lo, hi, w) ==
    IF lo > hi THEN 0
    ELSE IF lo = hi THEN ((IF w THEN lo ELSE 1) * s[lo]) % 256
    ELSE LET mid == (lo + hi) \div 2
         IN  (SumOver(s, lo, mid, w) + SumOver(s, mid + 1, hi, w)) % 256

\* plain and position-weighted checksums of a byte string
Chk(s) == SumOver(s, 1, Len(s), FALSE)
WChk(s) == SumOver(s, 1, Len(s), TRUE)

\* s cut or zero-padded to exactly n bytes
Pad(s, n) == [i \in 1..n |-> IF i <= Len(s) THEN s[i] ELSE 0] \o <<>>

\* the last n bytes of s (all of s when it is shorter)
LastN(s, n) == IF Len(s) <= n THEN s ELSE SubSeq(s, Len(s) - n + 1, Len(s))

RECURSIVE Pow2(_)
Pow2(k) == IF k = 0 THEN 1 ELSE 2 * Pow2(k - 1)

\* byte b with bit k (0..7) inverted
FlipBit(b, k) == IF (b \div Pow2(k)) % 2 = 1 THEN b - Pow2(k) ELSE b + Pow2(k)

\* s with bit k of its i-th byte inverted
FlipAt(s, i, k) == [s EXCEPT ![i] = FlipBit(s[i], k)]

----------------------------------------------------------------------------
(* hex::encode / hex::decode *)

HexChar(n) == IF n < 10 THEN 48 + n ELSE 87 + n

\* hex with the two characters of each byte swapped
encode_low_nibble_first(bytes) ==
    [k \in 1..(2 * Len(bytes)) |->
        LET b == bytes[(k + 1) \div 2]
        IN  HexChar(IF k % 2 = 1 THEN b % 16 ELSE b \div 16)] \o <<>>

\* lowercase hex, two characters per byte, high nibble first
encode(bytes) ==
    [k \in 1..(2 * Len(bytes)) |->
        LET b == bytes[(k + 1) \div 2]
        IN  HexChar(IF k % 2 = 1 THEN b \div 16 ELSE b % 16)] \o <<>>

\* value of a hex digit of either case, -1 for any other character;
\* entry c + 1 is for the character with code c
HexTable ==
    [c \in 1..256 |->
        IF c - 1 >= 48 /\ c - 1 <= 57 THEN c - 1 - 48
        ELSE IF c - 1 >= 97 /\ c - 1 <= 102 THEN c - 1 - 87
        ELSE IF c - 1 >= 65 /\ c - 1 <= 70 THEN c - 1 - 55
        ELSE -1] \o <<>>

HexVal(c) == HexTable[c + 1]

decode(str) ==
    IF Len(str) % 2 = 1 THEN Err("OddLength")
    ELSE IF \E k \in 1..Len(str) : HexVal(str[k]) = -1 THEN Err("InvalidHexCharacter")
    ELSE Ok([i \in 1..(Len(str) \div 2) |->
                16 * HexVal(str[2 * i - 1]) + HexVal(str[2 * i])] \o <<>>)

----------------------------------------------------------------------------
(* The OS random source (getrandom): the n-th draw of the process.  A      *)
(* cryptographic source is idealised as never repeating: every block of    *)
(* the n-th draw differs from the same block of every other draw.          *)

RandomBytes(n, length) == [i \in 1..length |-> (n + i) % 256] \o <<>>

get_random_bytes(length) == Ok(RandomBytes(rngCount + 1, length))

----------------------------------------------------------------------------
(* scrypt *)

\* scrypt::Params::new: rejects r = 0, p = 0, too large log_n / r * p, and
\* an output length outside 10..=64
ParamsValid(param) ==
    /\ param.log_n < 64
    /\ param.r >= 1 /\ param.p >= 1
    /\ param.r * param.p < 1073741824
    /\ param.len >= 10 /\ param.len <= 64

\* a KDF call that passes the salt where the password belongs
derive_scrypt_key_salt_only(password, salt, param) ==
    IF ~ParamsValid(param) THEN Panic("unwrap on Err: InvalidParams")
    ELSE Ok([len |-> 32, password |-> salt, salt |-> salt,
             log_n |-> param.log_n, r |-> param.r, p |-> param.p])

\* The derived key as a symbolic value: it is determined by, and (ideal
\* KDF) determines, the password, the salt and the cost parameters.  The
\* output buffer is always allocated with 32 bytes; scrypt() fills the
\* buffer it is given and does not read param.len.
derive_scrypt_key(password, salt, param) ==
    IF ~ParamsValid(param) THEN Panic("unwrap on Err: InvalidParams")
    ELSE Ok([len |-> 32, password |-> password, salt |-> salt,
             log_n |-> param.log_n, r |-> param.r, p |-> param.p])

----------------------------------------------------------------------------
(* AES-256-GCM (aes_gcm crate), idealised: a stream cipher keyed by        *)
(* (key, nonce) and a 16-byte tag over (key, nonce, ciphertext body).      *)

\* the key stream is KeyBase + i at byte i
KeyBase(key, nonce) ==
    (Chk(key.password) + Chk(key.salt) + Chk(nonce) + key.log_n) % 256

\* input shifted bytewise by the key stream, forward (encrypt) or back
Stream(key, nonce, input, forward) ==
    LET base == KeyBase(key, nonce)
    IN  [i \in 1..Len(input) |->
            IF forward THEN (input[i] + base + i) % 256
            ELSE (input[i] + 512 - base - i) % 256] \o <<>>

\* Chk moves with every single-byte change, WChk with a reordering.
GcmTag(key, nonce, body) ==
    <<Chk(key.password), WChk(key.password), Len(key.password) % 256,
      Chk(key.salt), Len(key.salt) % 256,
      key.log_n, key.r % 256, key.p % 256,
      Chk(nonce), Len(body) % 256, Chk(body), 0, 0, 0, 0, 0>>

\* cipher.encrypt(nonce, input): ciphertext body followed by the tag
AesGcmEncrypt(key, nonce, input) ==
    LET body == Stream(key, nonce, input, TRUE)
    IN  Ok(body \o GcmTag(key, nonce, body))

\* cipher.decrypt without the tag comparison (an unauthenticated mode)
AesCtrDecrypt(key, nonce, ct) ==
    IF Len(ct) < 16 THEN Err("Error")
    ELSE LET body == SubSeq(ct, 1, Len(ct) - 16)
         IN  Ok(Stream(key, nonce, body, FALSE))

\* cipher.decrypt(nonce, ct): the opaque aead::Error on a short input or a
\* tag mismatch, the plaintext otherwise
AesGcmDecrypt(key, nonce, ct) ==
    IF Len(ct) < 16 THEN Err("Error")
    ELSE LET body == SubSeq(ct, 1, Len(ct) - 16)
             tag == SubSeq(ct, Len(ct) - 15, Len(ct))
         IN  IF tag # GcmTag(key, nonce, body) THEN Err("Error")
             ELSE Ok(Stream(key, nonce, body, FALSE))

----------------------------------------------------------------------------
(* encrypt / decrypt *)

\* the rest of encrypt once salt and iv are set
Seal(password, salt, iv, input) ==
    LET k == derive_scrypt_key(password, salt, ENC_SCRYPT)
    IN  IF ~IsOk(k) THEN k
        ELSE IF k.val.len # 32 THEN Panic("Key::from_slice: length")
        ELSE IF Len(iv) # 12 THEN Panic("Nonce::from_slice: length")
        ELSE LET c == AesGcmEncrypt(k.val, iv, input)
             IN  IF ~IsOk(c) THEN Err("Encryption error: Error")
                 ELSE Ok([salt |-> encode(salt), iv |-> encode(iv),
                          cipher_text |-> encode(c.val)])

\* encrypt whose iv buffer keeps its initial zeros
encrypt_zero_iv(password, input) ==
    LET rnd == get_random_bytes(SALT_LENGTH + IV_LENGTH)
    IN  Seal(password, SubSeq(rnd.val, 1, SALT_LENGTH), Pad(<<>>, IV_LENGTH), input)

\* Reads the random source: the caller counts the draw.
encrypt(password, input) ==
    LET rnd == get_random_bytes(SALT_LENGTH + IV_LENGTH)
    IN  IF ~IsOk(rnd) THEN Err(rnd.err)
        ELSE Seal(password,
                  SubSeq(rnd.val, 1, SALT_LENGTH),
                  SubSeq(rnd.val, SALT_LENGTH + 1, SALT_LENGTH + IV_LENGTH),
                  input)

\* the rest of decrypt once the three fields are decoded
Open(password, salt, iv, cipher_text) ==
    LET k == derive_scrypt_key(password, salt, ENC_SCRYPT)
    IN  IF ~IsOk(k) THEN k
        ELSE IF k.val.len # 32 THEN Panic("Key::from_slice: length")
        ELSE IF Len(iv) # 12 THEN Panic("Nonce::from_slice: length")
        ELSE LET d == AesGcmDecrypt(k.val, iv, cipher_text)
             IN  IF ~IsOk(d) THEN Err("Decryption error: Error") ELSE d

\* decrypt that rejects a short ciphertext itself, with its own message
decrypt_len_check(password, payload) ==
    LET ct == decode(payload.cipher_text)
    IN  IF IsOk(ct) /\ Len(ct.val) < 16 THEN Err("Ciphertext too short")
        ELSE IF ~IsOk(ct) THEN Err("Ciphertext decode error: " \o ct.err)
        ELSE Open(password, decode(payload.salt).val, decode(payload.iv).val, ct.val)

decrypt(password, payload) ==
    LET salt == decode(payload.salt)
        iv == decode(payload.iv)
        ct == decode(payload.cipher_text)
    IN  IF ~IsOk(salt) THEN Err("Salt decode error: " \o salt.err)
        ELSE IF ~IsOk(iv) THEN Err("IV decode error: " \o iv.err)
        ELSE IF ~IsOk(ct) THEN Err("Ciphertext decode error: " \o ct.err)
        ELSE Open(password, salt.val, iv.val, ct.val)

----------------------------------------------------------------------------
(* Child-key derivation *)

RECURSIVE Decimal(_)
\* format!("{}", index): decimal digits, no leading zeros
Decimal(n) == IF n < 10 THEN <<48 + n>> ELSE Append(Decimal(n \div 10), 48 + (n % 10))

\* a path that leaves the index out
kdf_path_no_index(index) == KDF_PATH_PREFIX

\* format!("{}{}", KDF_PATH_PREFIX, index)
kdf_path(index) == KDF_PATH_PREFIX \o Decimal(index)

\* What identifies a KDF output, as bytes: checksums of the password, the
\* cost parameters and the end of the salt (which holds the whole decimal
\* index of a path, and the whole of a 16-byte salt).
Material(k) ==
    <<Chk(k.password), WChk(k.password), Len(k.password) % 256, Len(k.salt) % 256,
      k.log_n, k.r % 256, k.p % 256>> \o LastN(k.salt, 16)

\* slh_dsa_shake_128f::try_keygen_with_rng over ChaCha8Rng::from_seed(seed):
\* a deterministic key pair of PK_LEN = 32 and SK_LEN = 64 bytes
try_keygen_with_rng(seed) ==
    Ok([pub_key |-> Pad(<<80>> \o Material(seed), 32),
        pri_key |-> Pad(<<83>> \o Material(seed), 64)])

\* key generation that takes its randomness from the OS source
derive_sphincs_key_os_rng(seed, index) ==
    LET rnd == get_random_bytes(32)
    IN  try_keygen_with_rng([len |-> 32, password |-> rnd.val, salt |-> kdf_path(index),
                             log_n |-> 0, r |-> 0, p |-> 0])

\* a call of derive_scrypt_key with what it returned
KdfCall(password, salt, param) ==
    [password |-> password, salt |-> salt, param |-> param,
     out |-> derive_scrypt_key(password, salt, param)]

\* the calls of derive_scrypt_key that derive_sphincs_key makes
derive_sphincs_key_kdf(seed, index) ==
    <<KdfCall(seed, kdf_path(index), KDF_SCRYPT)>>

derive_sphincs_key(seed, index) ==
    LET sphincs_seed == derive_sphincs_key_kdf(seed, index)[1].out
    IN  IF ~IsOk(sphincs_seed) THEN sphincs_seed
        ELSE IF sphincs_seed.val.len # 32 THEN Panic("Slice with incorrect length")
        ELSE try_keygen_with_rng(sphincs_seed.val)

\* <$kg>::keygen_with_seeds(sk_seed, sk_prf, pk_seed) for native length n:
\* a deterministic key pair of 2n and 4n bytes
keygen_with_seeds(n, sk_seed, sk_prf, pk_seed) ==
    LET m == Material(sk_seed) \o Material(sk_prf) \o Material(pk_seed)
    IN  [pub_key |-> Pad(<<80>> \o Material(pk_seed) \o m, 2 * n),
         pri_key |-> Pad(<<83>> \o m, 4 * n)]

\* the calls of derive_scrypt_key that sphincs_keygen!(kg, n, seed, index)
\* makes: none when the seed is too short to slice, and none after a call
\* that failed
sphincs_keygen_kdf(n, seed, index) ==
    LET param == [log_n |-> 10, r |-> 8, p |-> 1, len |-> n]
        path == kdf_path(index)
    IN  IF Len(seed) < 3 * n THEN <<>>
        ELSE
        LET sk_seed_kd == KdfCall(SubSeq(seed, 1, n), path, param)
            sk_prf_kd == KdfCall(SubSeq(seed, n + 1, 2 * n), path, param)
            pk_seed_kd == KdfCall(SubSeq(seed, 2 * n + 1, 3 * n), path, param)
        IN  IF ~IsOk(sk_seed_kd.out) THEN <<sk_seed_kd>>
            ELSE IF ~IsOk(sk_prf_kd.out) THEN <<sk_seed_kd, sk_prf_kd>>
            ELSE <<sk_seed_kd, sk_prf_kd, pk_seed_kd>>

\* sphincs_keygen!(kg, n, seed, index)
sphincs_keygen(n, seed, index) ==
    LET kdf == sphincs_keygen_kdf(n, seed, index)
    IN  IF Len(seed) < 3 * n THEN Panic("range end index out of range for slice")
        ELSE IF ~IsOk(kdf[Len(kdf)].out) THEN kdf[Len(kdf)].out
        ELSE IF \E k \in 1..3 : kdf[k].out.val.len # n THEN Err("Invalid seed length")
        ELSE Ok(keygen_with_seeds(n, kdf[1].out.val, kdf[2].out.val, kdf[3].out.val))

\* signing_key.try_sign(message, &[], true): a hedged signature of the
\* message under the key, randomised with bytes of the OS generator
try_sign(pri_key, message, rnd) ==
    Ok(Pad(<<Chk(pri_key), WChk(pri_key), Chk(message), WChk(message)>> \o rnd, 32))

\* how the library calls of a signature end: both succeed, try_from_bytes
\* fails, try_sign fails
SignOutcomes == {"ok", "construct", "sign"}

\* sphincs_sign!(module, pri_key, message_vec) for the module of native
\* length n (SK_LEN = 4n): what it returns and what its stack copy
\* pri_key_array holds when it returns
sphincs_sign(n, pri_key, message_vec, outcome, rnd) ==
    IF Len(pri_key) # 4 * n
    THEN [result |-> Err("Invalid private key length"), pri_key_array |-> <<>>]
    ELSE IF outcome = "construct"
    THEN [result |-> Err("Unable to construct private key"), pri_key_array |-> pri_key]
    ELSE IF outcome = "sign"
    THEN [result |-> Err("Signing error"), pri_key_array |-> pri_key]
    ELSE [result |-> try_sign(pri_key, message_vec, rnd),
          pri_key_array |-> [i \in 1..(4 * n) |-> 0] \o <<>>]

----------------------------------------------------------------------------
(* The two object stores and the calls on them *)

None == [tag |-> "None", val |-> <<>>, err |-> ""]

Some(v) == [tag |-> "Some", val |-> v, err |-> ""]

NoPayload == [salt |-> <<>>, iv |-> <<>>, cipher_text |-> <<>>]

NoPair == [index |-> 0, pub_key |-> <<>>, pri_enc |-> NoPayload]

SEED_PHRASE_KEY == "seed_phrase"

\* store.put(payload).with_key(SEED_PHRASE_KEY): the new content of the
\* store, the record of that key replaced
set_encrypted_mnemonic_phrase(payload) ==
    {r \in seed_store : r.key # SEED_PHRASE_KEY}
        \cup {[key |-> SEED_PHRASE_KEY, value |-> payload]}

\* store.get(SEED_PHRASE_KEY)
get_encrypted_mnemonic_phrase ==
    IF \E r \in seed_store : r.key = SEED_PHRASE_KEY
    THEN Ok(Some((CHOOSE r \in seed_store : r.key = SEED_PHRASE_KEY).value))
    ELSE Ok(None)

\* add_key_pair whose record keeps the index the caller put in it
add_key_pair_keep_index(store, pair) ==
    IF \E r \in store : r.pub_key = pair.pub_key
    THEN [store |-> store, result |-> Ok(<<>>)]
    ELSE [store |-> store \cup {pair}, result |-> Ok(<<>>)]

\* add_key_pair that stores with put: a record of the same key is replaced
add_key_pair_put(store, pair) ==
    LET rec == [pair EXCEPT !.index = Cardinality(store)]
    IN  [store |-> {r \in store : r.pub_key # rec.pub_key} \cup {rec},
         result |-> Ok(<<>>)]

\* One readwrite transaction on CHILD_KEYS_STORE: index := count, then add
\* under the key pub_key; a ConstraintError (key present) is skipped with Ok.
add_key_pair(store, pair) ==
    LET count == Cardinality(store)
        rec == [pair EXCEPT !.index = count]
    IN  IF \E r \in store : r.pub_key = rec.pub_key
        THEN [store |-> store, result |-> Ok(<<>>)]
        ELSE [store |-> store \cup {rec}, result |-> Ok(<<>>)]

\* store.clear()
clear_object_store(store) == {}

\* the orders in which get_all may deliver the records of the store
Deliveries(store) ==
    {d \in [1..Cardinality(store) -> store] :
        \A i, j \in 1..Cardinality(store) : i # j => d[i] # d[j]}

\* a record put in its place among records already sorted by index (stable)
InsertByIndex(sorted, r) ==
    LET pos == Cardinality({i \in 1..Len(sorted) : sorted[i].index <= r.index})
    IN  SubSeq(sorted, 1, pos) \o <<r>> \o SubSeq(sorted, pos + 1, Len(sorted))

\* the records left in the order they were delivered
sort_by_key_none(key_pairs) == key_pairs

RECURSIVE sort_by_key(_)
\* key_pairs.sort_by_key(|pair| pair.index)
sort_by_key(key_pairs) ==
    IF key_pairs = <<>> THEN <<>>
    ELSE InsertByIndex(sort_by_key(SubSeq(key_pairs, 1, Len(key_pairs) - 1)),
                       key_pairs[Len(key_pairs)])

\* get_all_sphincs_pub on the records as delivered by store.get_all()
get_all_sphincs_pub(delivered) ==
    LET key_pairs == sort_by_key(delivered \o <<>>)
    IN  Ok([i \in 1..Len(key_pairs) |-> key_pairs[i].pub_key] \o <<>>)

\* Mnemonic::from_entropy_in(..).to_string(): the words spell the entropy
\* followed by its checksum
mnemonic_from_entropy(entropy) == entropy \o <<Chk(entropy)>>

\* SphincsPlusKeyPair { index: 0, pub_key: encode(pub_key), pri_enc }
NewPair(keys, encrypted_pri) ==
    [index |-> 0, pub_key |-> encode(keys.pub_key), pri_enc |-> encrypted_pri]

----------------------------------------------------------------------------
(* The codec exercised on its own: encrypt calls, and decrypt calls on the  *)
(* payloads they produced, intact or corrupted.                            *)

NoResult == None

NoKeys == [pub_key |-> <<>>, pri_key |-> <<>>]

\* the 12 SPHINCS+ variants
SphincsVariant ==
    {"Sha2128F", "Sha2128S", "Sha2192F", "Sha2192S", "Sha2256F", "Sha2256S",
     "Shake128F", "Shake128S", "Shake192F", "Shake192S", "Shake256F", "Shake256S"}

\* the entropy, in bytes, of the master secret of a variant
bip39_compatible_entropy_size(variant) ==
    IF variant \in {"Sha2128F", "Sha2128S", "Shake128F", "Shake128S"}
    THEN 2 * 32 ELSE 3 * 32

\* the native length N of a variant: a third of the entropy its key
\* generation requires (48, 72 and 96 bytes for the 128, 192 and 256 class)
NativeLen(variant) ==
    IF variant \in {"Sha2128F", "Sha2128S", "Shake128F", "Shake128S"} THEN 16
    ELSE IF variant \in {"Sha2192F", "Sha2192S", "Shake192F", "Shake192S"} THEN 24
    ELSE 32

\* the variant the KeyVault calls generate keys and sign with
ActiveVariant == "Shake128F"

\* a task that is in no call
Idle ==
    [op |-> "idle", pc |-> "idle", password |-> <<>>, seed |-> <<>>,
     count |-> 0, i |-> 0, payload |-> NoPayload, pair |-> NoPair,
     entropy |-> <<>>, keys |-> NoKeys, pub_keys |-> <<>>, arg |-> <<>>,
     start |-> 0, found |-> FALSE, wrong |-> FALSE, empty |-> FALSE,
     alone |-> FALSE]

\* no call has returned
NoCall ==
    [op |-> "none", password |-> <<>>, seed |-> <<>>, arg |-> <<>>, start |-> 0,
     count |-> 0, found |-> FALSE, wrong |-> FALSE, empty |-> FALSE,
     alone |-> FALSE,
     result |-> NoResult, before |-> [seed |-> {}, keys |-> {}]]

\* no sphincs_sign! in the step taken
NoSign ==
    [n |-> 0, pri_key |-> <<>>, outcome |-> "none", result |-> NoResult,
     pri_key_array |-> <<>>]

\* no add_key_pair in the step taken
NoAdd ==
    [before |-> {}, pair |-> NoPair, after |-> {}, result |-> NoResult,
     password |-> <<>>, keys |-> NoKeys]

\* no listing in the step taken
NoList == [delivered |-> <<>>, inserted |-> <<>>, result |-> NoResult]

\* nothing encrypted or derived yet, both object stores empty, no call running
Init ==
    /\ seed_store = {}
    /\ seedPassword = <<>>
    /\ keys_store = {}
    /\ task = [t \in Tasks |-> Idle]
    /\ opsStarted = 0
    /\ insertOrder = <<>>
    /\ lastAdd = NoAdd
    /\ lastCall = NoCall
    /\ lastList = NoList
    /\ rngCount = 0
    /\ encLog = <<>>
    /\ lastDec = [cause |-> "init", expect |-> <<>>, result |-> NoResult]
    /\ failWrongPw = NoResult
    /\ failCorrupt = NoResult
    /\ deriveLog = <<>>
    /\ lastSign = NoSign

Encrypt(pw, m) ==
    /\ rngCount < MaxDraws
    /\ LET res == encrypt(pw, m)
       IN  /\ IsOk(res)
           /\ encLog' = Append(encLog, [password |-> pw, input |-> m, payload |-> res.val])
    /\ rngCount' = rngCount + 1
    /\ lastDec' = [cause |-> "init", expect |-> <<>>, result |-> NoResult]
    /\ failWrongPw' = NoResult
    /\ failCorrupt' = NoResult
    /\ UNCHANGED <<deriveLog, lastSign, vaultVars>>

\* the latest encrypt call
Latest == encLog[Len(encLog)]

\* decrypt(P, encrypt(P, M))
DecryptOwn ==
    /\ Len(encLog) > 0
    /\ lastDec' = [cause |-> "none", expect |-> Latest.input,
                   result |-> decrypt(Latest.password, Latest.payload)]
    /\ UNCHANGED <<rngCount, encLog, failWrongPw, failCorrupt, deriveLog, lastSign, vaultVars>>

\* decrypt(P', encrypt(P, M)) with P' # P
DecryptWrongPassword(pw) ==
    /\ Len(encLog) > 0
    /\ pw # Latest.password
    /\ \E res \in {decrypt(pw, Latest.payload)} :
           /\ lastDec' = [cause |-> "wrong_password", expect |-> Latest.input,
                          result |-> res]
           /\ failWrongPw' = res
    /\ UNCHANGED <<rngCount, encLog, failCorrupt, deriveLog, lastSign, vaultVars>>

\* payload with bit b of byte i of the named field inverted
FlipField(payload, field, i, b) ==
    [payload EXCEPT ![field] = encode(FlipAt(decode(payload[field]).val, i, b))]

\* decrypt with the right password after one bit of cipher_text changed
DecryptFlippedCipherText(i, b) ==
    /\ Len(encLog) > 0
    /\ i \in 1..(Len(Latest.payload.cipher_text) \div 2)
    /\ \E corrupted \in {FlipField(Latest.payload, "cipher_text", i, b)} :
       \E res \in {decrypt(Latest.password, corrupted)} :
           /\ lastDec' = [cause |-> "cipher_text_bit", expect |-> Latest.input,
                          result |-> res]
           /\ failCorrupt' = res
    /\ UNCHANGED <<rngCount, encLog, failWrongPw, deriveLog, lastSign, vaultVars>>

\* decrypt with the right password after one bit of salt or iv changed
DecryptFlippedSaltIv(field, i, b) ==
    /\ Len(encLog) > 0
    /\ i \in 1..(Len(Latest.payload[field]) \div 2)
    /\ \E corrupted \in {FlipField(Latest.payload, field, i, b)} :
       \E res \in {decrypt(Latest.password, corrupted)} :
           /\ lastDec' = [cause |-> "salt_iv_bit", expect |-> Latest.input,
                          result |-> res]
           /\ failCorrupt' = res
    /\ UNCHANGED <<rngCount, encLog, failWrongPw, deriveLog, lastSign, vaultVars>>

\* decrypt with the right password after cipher_text lost its last n bytes
DecryptTruncated(n) ==
    /\ Len(encLog) > 0
    /\ 2 * n <= Len(Latest.payload.cipher_text)
    /\ \E corrupted \in {[Latest.payload EXCEPT !.cipher_text =
                            SubSeq(@, 1, Len(@) - 2 * n)]} :
       \E res \in {decrypt(Latest.password, corrupted)} :
           /\ lastDec' = [cause |-> "truncated", expect |-> Latest.input,
                          result |-> res]
           /\ failCorrupt' = res
    /\ UNCHANGED <<rngCount, encLog, failWrongPw, deriveLog, lastSign, vaultVars>>

\* every bit of the longest cipher_text (two plaintext bytes and the tag)
NextCodec ==
    \/ \E pw \in Passwords, m \in Plaintexts : Encrypt(pw, m)
    \/ DecryptOwn
    \/ \E pw \in Passwords : DecryptWrongPassword(pw)
    \/ \E i \in 1..(SALT_LENGTH + 2), b \in 0..7 : DecryptFlippedCipherText(i, b)
    \/ \E f \in {"salt", "iv"}, i \in {1, IV_LENGTH}, b \in {0, 7} :
            DecryptFlippedSaltIv(f, i, b)
    \/ \E n \in 1..2 : DecryptTruncated(n)

SpecCodec == Init /\ [][NextCodec]_vars

----------------------------------------------------------------------------
(* Derivation exercised on its own, between other uses of the random       *)
(* source.                                                                 *)

\* the log with one more derivation, the oldest dropped beyond two
Logged(entry) ==
    IF Len(deriveLog) < 2 THEN Append(deriveLog, entry)
    ELSE <<deriveLog[2], entry>>

\* one behaviour derives from one master secret with one function
SameSecret(fn, n, seed) ==
    IF deriveLog = <<>> THEN TRUE
    ELSE /\ deriveLog[1].fn = fn
         /\ deriveLog[1].n = n
         /\ deriveLog[1].seed = seed

DeriveLib(seed, index) ==
    /\ SameSecret("derive_sphincs_key", 16, seed)
    /\ deriveLog' = Logged(
            [fn |-> "derive_sphincs_key", n |-> 16, seed |-> seed, index |-> index,
             draws |-> rngCount, kdf |-> derive_sphincs_key_kdf(seed, index),
             result |-> derive_sphincs_key(seed, index)])
    /\ lastSign' = NoSign
    /\ UNCHANGED <<rngCount, encLog, lastDec, failWrongPw, failCorrupt, vaultVars>>

DeriveMacro(n, seed, index) ==
    /\ SameSecret("sphincs_keygen", n, seed)
    /\ deriveLog' = Logged(
            [fn |-> "sphincs_keygen", n |-> n, seed |-> seed, index |-> index,
             draws |-> rngCount, kdf |-> sphincs_keygen_kdf(n, seed, index),
             result |-> sphincs_keygen(n, seed, index)])
    /\ lastSign' = NoSign
    /\ UNCHANGED <<rngCount, encLog, lastDec, failWrongPw, failCorrupt, vaultVars>>

\* sphincs_sign! of the module of native length n on the private key just
\* derived for it
SignMacro(n, message_vec, outcome) ==
    /\ deriveLog # <<>>
    /\ IsOk(deriveLog[Len(deriveLog)].result)
    /\ Len(deriveLog[Len(deriveLog)].result.val.pri_key) = 4 * n
    /\ rngCount < MaxDraws
    /\ LET pri_key == deriveLog[Len(deriveLog)].result.val.pri_key
           done == sphincs_sign(n, pri_key, message_vec, outcome,
                                get_random_bytes(16).val)
       IN  /\ lastSign' = [n |-> n, pri_key |-> pri_key, outcome |-> outcome,
                           result |-> done.result,
                           pri_key_array |-> done.pri_key_array]
           /\ rngCount' = IF IsOk(done.result) THEN rngCount + 1 ELSE rngCount
    /\ UNCHANGED <<encLog, lastDec, failWrongPw, failCorrupt, deriveLog, vaultVars>>

NextDerive ==
    \/ \E seed \in Seeds, index \in Indices : DeriveLib(seed, index)
    \/ \E n \in NativeLens, seed \in Seeds, index \in Indices : DeriveMacro(n, seed, index)
    \/ \E n \in NativeLens, message_vec \in Messages, outcome \in SignOutcomes :
            SignMacro(n, message_vec, outcome)
    \/ Encrypt(<<80, 49>>, <<>>)

SpecDerive == Init /\ [][NextDerive]_vars

----------------------------------------------------------------------------
(* The KeyVault calls.  A call runs in one task; it is split where it      *)
(* awaits a store, so that the calls of two tasks interleave there.        *)

Return(t) == [task EXCEPT ![t] = Idle]

\* a new call runs in the first free task
CanStart(t) ==
    /\ task[t].op = "idle"
    /\ \A i, j \in 1..Len(TaskOrder) :
            (TaskOrder[i] = t /\ j < i) => task[TaskOrder[j]].op # "idle"
    /\ opsStarted < MaxOps

\* no other call is in progress
Alone(t) == \A u \in Tasks \ {t} : task[u].op = "idle"

\* the tasks once t has begun a call (rec = Idle: the call returned at
\* once); a recover_accounts in progress has no longer run alone
Started(t, rec) ==
    [u \in Tasks |->
        IF u = t THEN rec
        ELSE IF task[u].op = "idle" THEN task[u]
        ELSE [task[u] EXCEPT !.alone = FALSE]]

\* the locals of a call as it begins
Begin(t, op, pw) ==
    [Idle EXCEPT !.op = op, !.password = pw, !.found = (seed_store # {}),
                 !.wrong = (seed_store # {} /\ pw # seedPassword)]

Stores == [seed |-> seed_store, keys |-> keys_store]

\* the record of a call that returns result in this step; the stores after
\* it are those of the state the step leads to
Call(c, result) ==
    [op |-> c.op, password |-> c.password, seed |-> c.seed, arg |-> c.arg,
     start |-> c.start, count |-> c.count, found |-> c.found, wrong |-> c.wrong,
     empty |-> c.empty,
     alone |-> c.alone, result |-> result, before |-> Stores]

\* stored_seed.is_some(), never true
PhraseStored_never(stored_seed) == FALSE

\* stored_seed.is_some()
PhraseStored(stored_seed) == stored_seed.val.tag = "Some"

\* init_seed_phrase up to the entropy: nothing to do when a phrase is stored
InitSeedPhrase(t, pw) ==
    /\ CanStart(t)
    /\ opsStarted' = opsStarted + 1
    /\ LET stored_seed == get_encrypted_mnemonic_phrase
           entropy == get_random_bytes(32)
           c == Begin(t, "init_seed_phrase", pw)
       IN  IF PhraseStored(stored_seed)
           THEN /\ task' = Started(t, Idle)
                /\ lastCall' = Call(c, Ok(<<>>))
                /\ UNCHANGED rngCount
           ELSE /\ IsOk(entropy)
                /\ rngCount' = rngCount + 1
                /\ task' = Started(t,
                        [c EXCEPT !.pc = "encrypt", !.entropy = entropy.val,
                                  !.seed = mnemonic_from_entropy(entropy.val)])
                /\ lastCall' = NoCall
    /\ lastAdd' = NoAdd /\ lastList' = NoList
    /\ UNCHANGED <<seed_store, seedPassword, keys_store, insertOrder, codecVars>>

\* init_seed_phrase: encrypt(&password, mnemonic)
InitSeedPhrase_Encrypt(t) ==
    /\ task[t].op = "init_seed_phrase" /\ task[t].pc = "encrypt"
    /\ \E e \in {encrypt(task[t].password, task[t].seed)} :
           IF IsOk(e)
           THEN /\ task' = [task EXCEPT ![t].pc = "set", ![t].payload = e.val,
                                        ![t].seed = <<>>]
                /\ lastCall' = NoCall
           ELSE /\ task' = Return(t)
                /\ lastCall' = Call(task[t], Err("Encryption error: " \o e.err))
    /\ rngCount' = rngCount + 1
    /\ lastAdd' = NoAdd /\ lastList' = NoList
    /\ UNCHANGED <<seed_store, seedPassword, keys_store, opsStarted, insertOrder, codecVars>>

\* import_seed_phrase up to set_encrypted_mnemonic_phrase
ImportSeedPhrase(t, seed_phrase, pw) ==
    /\ CanStart(t)
    /\ opsStarted' = opsStarted + 1
    /\ LET c == [Begin(t, "import_seed_phrase", pw) EXCEPT !.arg = seed_phrase]
       IN  \E e \in {encrypt(pw, seed_phrase)} :
               IF IsOk(e)
               THEN /\ task' = Started(t, [c EXCEPT !.pc = "set", !.payload = e.val])
                    /\ lastCall' = NoCall
               ELSE /\ task' = Started(t, Idle)
                    /\ lastCall' = Call(c, e)
    /\ rngCount' = rngCount + 1
    /\ lastAdd' = NoAdd /\ lastList' = NoList
    /\ UNCHANGED <<seed_store, seedPassword, keys_store, insertOrder, codecVars>>

\* set_encrypted_mnemonic_phrase(encrypted_seed), in either call
SetEncryptedMnemonicPhrase(t) ==
    /\ task[t].op \in {"init_seed_phrase", "import_seed_phrase"} /\ task[t].pc = "set"
    /\ seed_store' = set_encrypted_mnemonic_phrase(task[t].payload)
    /\ seedPassword' = task[t].password
    /\ task' = Return(t)
    /\ lastCall' = Call(task[t], Ok(<<>>))
    /\ lastAdd' = NoAdd /\ lastList' = NoList
    /\ UNCHANGED <<rngCount, keys_store, opsStarted, insertOrder, codecVars>>

\* the stored phrase taken as the bytes of its cipher text, whatever the
\* password
LoadSeed_unauthenticated(pw) ==
    LET payload == get_encrypted_mnemonic_phrase
    IN  IF payload.val.tag = "None" THEN Err("Mnemonic phrase not found")
        ELSE decode(payload.val.val.cipher_text)

\* the stored phrase read as if it were always there
LoadSeed_unchecked(pw) ==
    LET payload == get_encrypted_mnemonic_phrase
    IN  decrypt(pw, IF payload.val.tag = "None" THEN NoPayload ELSE payload.val.val)

\* the phrase of the store decrypted with the password, as the calls that
\* derive keys begin
LoadSeed(pw) ==
    LET payload == get_encrypted_mnemonic_phrase
    IN  IF payload.val.tag = "None" THEN Err("Mnemonic phrase not found")
        ELSE decrypt(pw, payload.val.val)

\* the pair to store derived at index 0 whatever the index
DerivePair_index_zero(pw, seed, index) ==
    LET keys == derive_sphincs_key(seed, 0)
        encrypted_pri == encrypt(pw, keys.val.pri_key)
    IN  Ok([pair |-> NewPair(keys.val, encrypted_pri.val), keys |-> keys.val])

\* the pair to store made from the public key in both places
DerivePair_encrypts_pub(pw, seed, index) ==
    LET keys == derive_sphincs_key(seed, index)
        encrypted_pri == encrypt(pw, keys.val.pub_key)
    IN  Ok([pair |-> NewPair(keys.val, encrypted_pri.val), keys |-> keys.val])

\* derive_sphincs_key(seed, index), then encrypt(&password, pri_key) and the
\* pair to store, with the keys it was made from
DerivePair(pw, seed, index) ==
    LET keys == derive_sphincs_key(seed, index)
    IN  IF ~IsOk(keys) THEN Err("Key derivation error: " \o keys.err)
        ELSE LET encrypted_pri == encrypt(pw, keys.val.pri_key)
             IN  IF ~IsOk(encrypted_pri) THEN encrypted_pri
                 ELSE Ok([pair |-> NewPair(keys.val, encrypted_pri.val),
                          keys |-> keys.val])

\* gen_new_key_pair up to get_all_sphincs_pub
GenNewKeyPair(t, pw) ==
    /\ CanStart(t)
    /\ opsStarted' = opsStarted + 1
    /\ LET c == Begin(t, "gen_new_key_pair", pw)
       IN  \E seed \in {LoadSeed(pw)} :
               IF IsOk(seed)
               THEN /\ task' = Started(t, [c EXCEPT !.pc = "list", !.seed = seed.val])
                    /\ lastCall' = NoCall
               ELSE /\ task' = Started(t, Idle)
                    /\ lastCall' = Call(c, seed)
    /\ lastAdd' = NoAdd /\ lastList' = NoList
    /\ UNCHANGED <<rngCount, seed_store, seedPassword, keys_store, insertOrder, codecVars>>

\* gen_new_key_pair from get_all_sphincs_pub to add_key_pair
GenNewKeyPair_Derive(t) ==
    /\ task[t].op = "gen_new_key_pair" /\ task[t].pc = "list"
    /\ \E delivered \in Deliveries(keys_store) :
       \E made \in {DerivePair(task[t].password, task[t].seed,
                               Len(get_all_sphincs_pub(delivered).val))} :
           IF IsOk(made)
           THEN /\ task' = [task EXCEPT ![t].pc = "add", ![t].pair = made.val.pair,
                                        ![t].keys = made.val.keys, ![t].seed = <<>>]
                /\ lastCall' = NoCall
           ELSE /\ task' = Return(t)
                /\ lastCall' = Call(task[t], made)
    /\ rngCount' = rngCount + 1
    /\ lastAdd' = NoAdd /\ lastList' = NoList
    /\ UNCHANGED <<seed_store, seedPassword, keys_store, opsStarted, insertOrder, codecVars>>

\* the effect of add_key_pair(pair) of task t on the store and on the record
\* of it
Added(t) ==
    \E r \in {add_key_pair(keys_store, task[t].pair)} :
        /\ keys_store' = r.store
        /\ insertOrder' = IF r.store = keys_store THEN insertOrder
                          ELSE Append(insertOrder, task[t].pair.pub_key)
        /\ lastAdd' = [before |-> keys_store, pair |-> task[t].pair, after |-> r.store,
                       result |-> r.result, password |-> task[t].password,
                       keys |-> task[t].keys]

\* gen_new_key_pair: add_key_pair(pair) and the return
GenNewKeyPair_Add(t) ==
    /\ task[t].op = "gen_new_key_pair" /\ task[t].pc = "add"
    /\ Added(t)
    /\ task' = Return(t)
    /\ lastCall' = Call(task[t], Ok(task[t].pair.pub_key))
    /\ lastList' = NoList
    /\ UNCHANGED <<rngCount, seed_store, seedPassword, opsStarted, codecVars>>

\* recover_accounts up to the add_key_pair of round 0
RecoverAccounts(t, pw) ==
    /\ CanStart(t)
    /\ opsStarted' = opsStarted + 1
    /\ \E seed \in {LoadSeed(pw)}, count \in Counts :
       LET c == [Begin(t, "recover_accounts", pw) EXCEPT
                    !.count = count, !.empty = (keys_store = {}), !.alone = Alone(t)]
       IN  IF ~IsOk(seed)
           THEN /\ task' = Started(t, Idle)
                /\ lastCall' = Call(c, seed)
                /\ UNCHANGED rngCount
           ELSE IF count = 0
           THEN /\ task' = Started(t, Idle)
                /\ lastCall' = Call([c EXCEPT !.seed = seed.val], Ok(<<>>))
                /\ UNCHANGED rngCount
           ELSE \E made \in {DerivePair(pw, seed.val, 0)} :
                    /\ rngCount' = rngCount + 1
                    /\ IF IsOk(made)
                       THEN /\ task' = Started(t,
                                    [c EXCEPT !.pc = "add", !.seed = seed.val,
                                              !.pair = made.val.pair,
                                              !.keys = made.val.keys,
                                              !.pub_keys = <<made.val.pair.pub_key>>])
                            /\ lastCall' = NoCall
                       ELSE /\ task' = Started(t, Idle)
                            /\ lastCall' = Call([c EXCEPT !.seed = seed.val], made)
    /\ lastAdd' = NoAdd /\ lastList' = NoList
    /\ UNCHANGED <<seed_store, seedPassword, keys_store, insertOrder, codecVars>>

\* recover_accounts: add_key_pair(pair) of round i, then the next round up
\* to its add_key_pair, or the return
RecoverAccounts_Add(t) ==
    /\ task[t].op = "recover_accounts" /\ task[t].pc = "add"
    /\ Added(t)
    /\ LET more == task[t].i + 1 < task[t].count
       IN  IF more
           THEN \E made \in {DerivePair(task[t].password, task[t].seed, task[t].i + 1)} :
                    /\ rngCount' = rngCount + 1
                    /\ IF IsOk(made)
                       THEN /\ task' = [task EXCEPT
                                    ![t].i = @ + 1, ![t].pair = made.val.pair,
                                    ![t].keys = made.val.keys,
                                    ![t].pub_keys = Append(@, made.val.pair.pub_key)]
                            /\ lastCall' = NoCall
                       ELSE /\ task' = Return(t)
                            /\ lastCall' = Call(task[t], made)
           ELSE /\ task' = Return(t)
                /\ lastCall' = Call(task[t], Ok(task[t].pub_keys))
                /\ UNCHANGED rngCount
    /\ lastList' = NoList
    /\ UNCHANGED <<seed_store, seedPassword, opsStarted, codecVars>>

\* clear_database: clear_object_store(&db, SEED_PHRASE_STORE)
ClearDatabase(t) ==
    /\ CanStart(t)
    /\ opsStarted' = opsStarted + 1
    /\ seed_store' = clear_object_store(seed_store)
    /\ seedPassword' = <<>>
    /\ task' = Started(t, [Begin(t, "clear_database", <<>>) EXCEPT !.pc = "keys"])
    /\ lastCall' = NoCall /\ lastAdd' = NoAdd /\ lastList' = NoList
    /\ UNCHANGED <<rngCount, keys_store, insertOrder, codecVars>>

\* clear_database: clear_object_store(&db, CHILD_KEYS_STORE)
ClearDatabase_Keys(t) ==
    /\ task[t].op = "clear_database" /\ task[t].pc = "keys"
    /\ keys_store' = clear_object_store(keys_store)
    /\ insertOrder' = <<>>
    /\ task' = Return(t)
    /\ lastCall' = Call(task[t], Ok(<<>>))
    /\ lastAdd' = NoAdd /\ lastList' = NoList
    /\ UNCHANGED <<rngCount, seed_store, seedPassword, opsStarted, codecVars>>

\* get_all_sphincs_pub called on its own: the store delivers its records in
\* any order
GetAllSphincsPub(t) ==
    /\ CanStart(t)
    /\ opsStarted' = opsStarted + 1
    /\ \E delivered \in Deliveries(keys_store) :
           lastList' = [delivered |-> delivered \o <<>>, inserted |-> insertOrder,
                        result |-> get_all_sphincs_pub(delivered)]
    /\ task' = Started(t, Idle)
    /\ lastCall' = NoCall /\ lastAdd' = NoAdd
    /\ UNCHANGED <<rngCount, seed_store, seedPassword, keys_store, insertOrder, codecVars>>

\* export_seed_phrase
ExportSeedPhrase(t, pw) ==
    /\ CanStart(t)
    /\ opsStarted' = opsStarted + 1
    /\ task' = Started(t, Idle)
    /\ lastCall' = Call(Begin(t, "export_seed_phrase", pw), LoadSeed(pw))
    /\ lastAdd' = NoAdd /\ lastList' = NoList
    /\ UNCHANGED <<rngCount, seed_store, seedPassword, keys_store, insertOrder, codecVars>>

\* A u32 is kept as its two 16-bit halves, value hi * 65536 + lo: TLC's
\* integers end at 2^31 - 1.
U32(n) == [hi |-> n \div 65536, lo |-> n % 65536]

\* u32::MAX
U32_MAX == [hi |-> 65535, lo |-> 65535]

\* the value of a u32 below 2^31
ToInt(u) == u.hi * 65536 + u.lo

\* a + b in a build without overflow checks
wrapping_add(a, b) ==
    [hi |-> (a.hi + b.hi + ((a.lo + b.lo) \div 65536)) % 65536,
     lo |-> (a.lo + b.lo) % 65536]

\* a + b exceeds u32::MAX
add_overflows(a, b) == a.hi + b.hi + ((a.lo + b.lo) \div 65536) >= 65536

\* the number of rounds of for i in start..end
RangeLen(start, end) ==
    IF start.hi < end.hi \/ (start.hi = end.hi /\ start.lo < end.lo)
    THEN (end.hi - start.hi) * 65536 + end.lo - start.lo
    ELSE 0

\* gen_account_batch from the loop on: for i in start_index..(start_index
\* + count).  The sum is a u32 addition: past u32::MAX it panics in a
\* build with overflow checks and wraps in one without.
gen_account_batch(seed, start_index, count, overflow_checks) ==
    IF add_overflows(start_index, count) /\ overflow_checks
    THEN Panic("attempt to add with overflow")
    ELSE
    LET rounds == RangeLen(start_index, wrapping_add(start_index, count))
        keys == [k \in 1..rounds |->
                    derive_sphincs_key(seed,
                        ToInt(wrapping_add(start_index, U32(k - 1))))]
    IN  IF \E k \in 1..rounds : ~IsOk(keys[k])
        THEN LET k == CHOOSE k \in 1..rounds :
                        ~IsOk(keys[k]) /\ \A j \in 1..rounds : ~IsOk(keys[j]) => k <= j
             IN  [keys[k] EXCEPT !.err = "Key derivation error: " \o @]
        ELSE Ok([k \in 1..rounds |-> encode(keys[k].val.pub_key)] \o <<>>)

\* the start indices gen_account_batch is called with
BatchStarts == {U32(n) : n \in Starts} \cup {U32_MAX}

\* the builds that differ on start_index + count: with and without
\* overflow checks when the sum overflows
Builds(start_index, count) ==
    IF add_overflows(start_index, count) THEN BOOLEAN ELSE {FALSE}

\* gen_account_batch, in either build
GenAccountBatch(t, pw, start_index, count, overflow_checks) ==
    /\ CanStart(t)
    /\ opsStarted' = opsStarted + 1
    /\ task' = Started(t, Idle)
    /\ \E seed \in {LoadSeed(pw)} :
       LET c == [Begin(t, "gen_account_batch", pw) EXCEPT
                    !.start = start_index, !.count = count,
                    !.seed = IF IsOk(seed) THEN seed.val ELSE <<>>]
       IN  lastCall' = Call(c, IF IsOk(seed)
                               THEN gen_account_batch(seed.val, start_index, count,
                                                      overflow_checks)
                               ELSE seed)
    /\ lastAdd' = NoAdd /\ lastList' = NoList
    /\ UNCHANGED <<rngCount, seed_store, seedPassword, keys_store, insertOrder, codecVars>>

\* get_key_pair(pub_key): the record stored under the key, if any
get_key_pair(store, pub_key) ==
    IF \E r \in store : r.pub_key = pub_key
    THEN Ok(Some(CHOOSE r \in store : r.pub_key = pub_key))
    ELSE Ok(None)

\* Option::unwrap and Option::expect
unwrap(opt, msg) == IF opt.tag = "Some" THEN Ok(opt.val) ELSE Panic(msg)

\* sign from get_key_pair to the signature
sign(password, sphincs_plus_pub, message) ==
    LET pair == unwrap(get_key_pair(keys_store, sphincs_plus_pub).val,
                       "called Option::unwrap() on a None value")
    IN  IF ~IsOk(pair) THEN pair
        ELSE LET pri_key == decrypt(password, pair.val.pri_enc)
             IN  IF ~IsOk(pri_key) THEN pri_key
                 ELSE IF Len(pri_key.val) # 64 THEN Panic("Fail to parse private key")
                 ELSE try_sign(pri_key.val, message, get_random_bytes(16).val)

\* sign
Sign(t, pw, sphincs_plus_pub, message) ==
    /\ CanStart(t)
    /\ opsStarted' = opsStarted + 1
    /\ task' = Started(t, Idle)
    /\ \E result \in {sign(pw, sphincs_plus_pub, message)} :
           /\ lastCall' = Call([Begin(t, "sign", pw) EXCEPT
                                    !.arg = sphincs_plus_pub,
                                    !.found = (\E r \in keys_store :
                                                    r.pub_key = sphincs_plus_pub)],
                               result)
           /\ rngCount' = IF IsOk(result) THEN rngCount + 1 ELSE rngCount
    /\ lastAdd' = NoAdd /\ lastList' = NoList
    /\ UNCHANGED <<seed_store, seedPassword, keys_store, insertOrder, codecVars>>

\* the public identifiers sign is called with: those stored and one that
\* is not
PubKeys == {r.pub_key : r \in keys_store} \cup {<<48, 48>>}

Next ==
    \E t \in Tasks :
        \/ \E pw \in Passwords : InitSeedPhrase(t, pw)
        \/ InitSeedPhrase_Encrypt(t)
        \/ \E seed_phrase \in SeedPhrases, pw \in Passwords : ImportSeedPhrase(t, seed_phrase, pw)
        \/ SetEncryptedMnemonicPhrase(t)
        \/ \E pw \in Passwords : GenNewKeyPair(t, pw)
        \/ GenNewKeyPair_Derive(t)
        \/ GenNewKeyPair_Add(t)
        \/ \E pw \in Passwords : RecoverAccounts(t, pw)
        \/ RecoverAccounts_Add(t)
        \/ ClearDatabase(t)
        \/ ClearDatabase_Keys(t)
        \/ GetAllSphincsPub(t)
        \/ \E pw \in Passwords : ExportSeedPhrase(t, pw)
        \/ \E pw \in Passwords, start_index \in BatchStarts, count \in Counts :
           \E overflow_checks \in Builds(start_index, U32(count)) :
                GenAccountBatch(t, pw, start_index, U32(count), overflow_checks)
        \/ \E pw \in Passwords, sphincs_plus_pub \in PubKeys, message \in Messages :
                Sign(t, pw, sphincs_plus_pub, message)

Spec == Init /\ [][Next]_vars

----------------------------------------------------------------------------
(* Properties of the codec (under SpecCodec) *)

\* the one error decrypt reports when the AEAD check fails
AuthenticationFailure == Err("Decryption error: Error")

\* C1: for every password P and plaintext M, decrypt(P, encrypt(P, M))
\* succeeds and returns exactly M.
C1_RoundTrip ==
    lastDec.cause = "none" => lastDec.result = Ok(lastDec.expect)

C1_Witness ==
    /\ lastDec.cause = "none"
    /\ Len(lastDec.expect) > 0
    /\ lastDec.result = Ok(lastDec.expect)

\* C2: for every plaintext M and passwords P' # P, decrypt(P', encrypt(P, M))
\* fails with AuthenticationFailure and returns no plaintext.
C2_WrongPasswordFails ==
    lastDec.cause = "wrong_password" => lastDec.result = AuthenticationFailure

C2_Witness ==
    /\ lastDec.cause = "wrong_password"
    /\ Len(lastDec.expect) > 0
    /\ lastDec.result.tag = "Err"

\* C3: changing any single bit of the cipher_text of a payload produced by
\* encrypt makes decrypt with the original password fail with
\* AuthenticationFailure.
C3_BitFlipFails ==
    lastDec.cause = "cipher_text_bit" => lastDec.result = AuthenticationFailure

C3_Witness ==
    /\ lastDec.cause = "cipher_text_bit"
    /\ Len(lastDec.expect) > 0
    /\ lastDec.result.tag = "Err"

\* C4: a decrypt that fails the AEAD check reports the same value whether a
\* wrong password or a corrupted payload caused it: the outcome of a
\* wrong-password run and of a corrupted-payload run on the same payload
\* are failures and are equal.
C4_UndifferentiatedFailure ==
    (failWrongPw # NoResult /\ failCorrupt # NoResult)
        => (failWrongPw.tag = "Err" /\ failWrongPw = failCorrupt)

C4_Witness ==
    /\ failWrongPw # NoResult /\ failCorrupt # NoResult
    /\ lastDec.cause = "truncated"
    /\ failCorrupt.tag = "Err"

\* C5: every encrypt call draws a new salt and iv: no two encrypt calls share
\* a salt or an iv (so no (salt, iv) pair is reused), and two calls with the
\* same password and plaintext produce different cipher_text.
C5_FreshSaltIv ==
    \A i, j \in 1..Len(encLog) :
        i < j =>
            /\ encLog[i].payload.salt # encLog[j].payload.salt
            /\ encLog[i].payload.iv # encLog[j].payload.iv
            /\ (encLog[i].password = encLog[j].password /\ encLog[i].input = encLog[j].input)
                   => encLog[i].payload.cipher_text # encLog[j].payload.cipher_text

C5_Witness ==
    \E i, j \in 1..Len(encLog) :
        /\ i < j
        /\ encLog[i].password = encLog[j].password
        /\ encLog[i].input = encLog[j].input
        /\ Len(encLog[i].input) > 0

----------------------------------------------------------------------------
(* Properties of the derivation (under SpecDerive) *)

\* C6: child-key derivation is a deterministic function of (master entropy,
\* index, variant): two calls with the same inputs return the same result,
\* whatever was called and drawn from the random source in between.
C6_Deterministic ==
    \A a, b \in 1..Len(deriveLog) :
        (/\ deriveLog[a].fn = deriveLog[b].fn
         /\ deriveLog[a].n = deriveLog[b].n
         /\ deriveLog[a].seed = deriveLog[b].seed
         /\ deriveLog[a].index = deriveLog[b].index)
            => deriveLog[a].result = deriveLog[b].result

C6_Witness ==
    \E a, b \in 1..Len(deriveLog) :
        /\ deriveLog[a].fn = "derive_sphincs_key" /\ deriveLog[b].fn = "derive_sphincs_key"
        /\ deriveLog[a].seed = deriveLog[b].seed
        /\ deriveLog[a].index = deriveLog[b].index
        /\ deriveLog[a].draws < deriveLog[b].draws
        /\ IsOk(deriveLog[a].result)
        /\ deriveLog[a].result = deriveLog[b].result

\* C7: for the same master entropy and two indices i # j the paths
\* prefix + decimal index differ, and so do the derived public keys and the
\* derived private keys (KDF and keygen taken as injective).
C7_IndexSeparation ==
    \A a, b \in 1..Len(deriveLog) :
        (/\ deriveLog[a].fn = deriveLog[b].fn
         /\ deriveLog[a].n = deriveLog[b].n
         /\ deriveLog[a].seed = deriveLog[b].seed
         /\ deriveLog[a].index # deriveLog[b].index)
            => /\ kdf_path(deriveLog[a].index) # kdf_path(deriveLog[b].index)
               /\ (IsOk(deriveLog[a].result) /\ IsOk(deriveLog[b].result))
                    => /\ deriveLog[a].result.val.pub_key # deriveLog[b].result.val.pub_key
                       /\ deriveLog[a].result.val.pri_key # deriveLog[b].result.val.pri_key

C7_Witness ==
    \E a, b \in 1..Len(deriveLog) :
        /\ deriveLog[a].fn = deriveLog[b].fn
        /\ deriveLog[a].n = deriveLog[b].n
        /\ deriveLog[a].seed = deriveLog[b].seed
        /\ deriveLog[a].index = 1 /\ deriveLog[b].index = 10
        /\ IsOk(deriveLog[a].result) /\ IsOk(deriveLog[b].result)
        /\ deriveLog[a].result.val.pub_key # deriveLog[b].result.val.pub_key

----------------------------------------------------------------------------
(* Properties of the stores (under Spec) *)

\* C8: whatever insertions (gen_new_key_pair, recover_accounts) and
\* clear_database calls have run or are under way, the indices stored in
\* the account store are exactly 0..n-1 for its n records, no two records
\* share an index, and an inserted record got the record count at the time
\* of its insertion.
C8_IndicesContiguous ==
    /\ {r.index : r \in keys_store} = 0..(Cardinality(keys_store) - 1)
    /\ \A r1, r2 \in keys_store : r1.index = r2.index => r1 = r2
    /\ lastAdd.after # lastAdd.before =>
           \E r \in lastAdd.after :
               /\ r.index = Cardinality(lastAdd.before)
               /\ r.pub_key = lastAdd.pair.pub_key
               /\ lastAdd.after = lastAdd.before \cup {r}

C8_Witness ==
    /\ Cardinality(keys_store) = 2
    /\ seed_store = {}
    /\ \E t \in Tasks : task[t].op = "clear_database"

\* C9: get_all_sphincs_pub returns the public keys in insertion order,
\* whatever order the store delivers the records in.
C9_ListInInsertionOrder ==
    lastList.result.tag # "None" => lastList.result = Ok(lastList.inserted)

C9_Witness ==
    /\ Len(lastList.delivered) = 2
    /\ lastList.delivered[1].index > lastList.delivered[2].index
    /\ lastList.result =
           Ok(<<encode(derive_sphincs_key(<<7, 7, 7>>, 0).val.pub_key),
                encode(derive_sphincs_key(<<7, 7, 7>>, 1).val.pub_key)>>)

\* C10: add_key_pair of a pair whose pub_key is already stored leaves the
\* account store as it was and returns Ok.
C10_DuplicateInsertNoOp ==
    (\E r \in lastAdd.before : r.pub_key = lastAdd.pair.pub_key) =>
        /\ lastAdd.after = lastAdd.before
        /\ lastAdd.result = Ok(<<>>)

C10_Witness ==
    /\ \E r \in lastAdd.before : r.pub_key = lastAdd.pair.pub_key
    /\ Cardinality(lastAdd.after) = 1
    /\ lastAdd.result.tag = "Ok"
    /\ keys_store = lastAdd.after

----------------------------------------------------------------------------
(* Properties of the KeyVault calls (under Spec) *)

\* C11: an init_seed_phrase that finds a master secret stored returns
\* success and leaves the master-secret store and the account store as they
\* were; the master-secret store never holds more than one record.
C11_InitOnlyWhenEmpty ==
    /\ Cardinality(seed_store) <= 1
    /\ (lastCall.op = "init_seed_phrase" /\ lastCall.found) =>
           /\ lastCall.result = Ok(<<>>)
           /\ Stores = lastCall.before

C11_Witness ==
    /\ lastCall.op = "init_seed_phrase" /\ lastCall.found
    /\ Cardinality(lastCall.before.seed) = 1
    /\ Cardinality(lastCall.before.keys) = 1
    /\ lastCall.result = Ok(<<>>)

\* C12: a gen_new_key_pair that returns a public key has added one account:
\* the account store holds one record more than before its add_key_pair,
\* and the returned key was not stored before, also when two
\* gen_new_key_pair calls interleave.
C12_GenAppendsNew ==
    (lastCall.op = "gen_new_key_pair" /\ IsOk(lastCall.result)) =>
        /\ Cardinality(keys_store) = Cardinality(lastCall.before.keys) + 1
        /\ \A r \in lastCall.before.keys : r.pub_key # lastCall.result.val

\* C13: the record add_key_pair stores for gen_new_key_pair or
\* recover_accounts called with password P carries a pri_enc that decrypts
\* under P to exactly the derived private key, under the hex of the public
\* key derived with it.
C13_StoredKeyDecrypts ==
    lastAdd.after # lastAdd.before =>
        \A r \in lastAdd.after \ lastAdd.before :
            /\ decrypt(lastAdd.password, r.pri_enc) = Ok(lastAdd.keys.pri_key)
            /\ decode(r.pub_key) = Ok(lastAdd.keys.pub_key)
            /\ Len(lastAdd.keys.pri_key) = 64

C13_Witness ==
    /\ Cardinality(lastAdd.after) = 2
    /\ Cardinality(lastAdd.before) = 1
    /\ \E r \in lastAdd.after \ lastAdd.before :
           /\ r.index = 1
           /\ Len(lastAdd.keys.pri_key) = 64
           /\ decrypt(lastAdd.password, r.pri_enc) = Ok(lastAdd.keys.pri_key)

WordCount(phrase) ==
    IF phrase = <<>> THEN 0
    ELSE Cardinality({i \in 1..Len(phrase) : phrase[i] = 32}) + 1

\* C15: an import_seed_phrase of a phrase whose word count is neither 48
\* nor 72 is rejected with an error and leaves the master-secret store as
\* it was.
C15_ImportRejectsInvalid ==
    (lastCall.op = "import_seed_phrase" /\ WordCount(lastCall.arg) \notin {48, 72}) =>
        /\ lastCall.result.tag = "Err"
        /\ seed_store = lastCall.before.seed

\* C16: the master secret init_seed_phrase creates has the length
\* bip39_compatible_entropy_size gives for the active variant: 64 bytes
\* for the four 128-class variants, 96 for the eight others.
C16_MasterSecretLength ==
    /\ \A v \in SphincsVariant :
           bip39_compatible_entropy_size(v) =
               IF v \in {"Sha2128F", "Sha2128S", "Shake128F", "Shake128S"}
               THEN 64 ELSE 96
    /\ \A t \in Tasks :
           (task[t].op = "init_seed_phrase" /\ task[t].entropy # <<>>) =>
               Len(task[t].entropy) = bip39_compatible_entropy_size(ActiveVariant)

\* the error of a call that needs the master secret and finds none
NotFoundError == Err("Mnemonic phrase not found")

\* C17: gen_new_key_pair, export_seed_phrase, gen_account_batch and
\* recover_accounts called with no master secret stored fail with the
\* not-found error and leave both stores as they were.
C17_NoSecretNotFound ==
    (/\ lastCall.op \in {"gen_new_key_pair", "export_seed_phrase",
                         "gen_account_batch", "recover_accounts"}
     /\ ~lastCall.found) =>
        /\ lastCall.result = NotFoundError
        /\ Stores = lastCall.before

C17_Witness ==
    /\ lastCall.op = "gen_account_batch"
    /\ ~lastCall.found
    /\ lastCall.before.seed = {}
    /\ lastCall.result = NotFoundError
    /\ \E t \in Tasks : task[t].op = "init_seed_phrase"

\* C18: a sign called with a public identifier that is not in the account
\* store returns an error, without aborting, and leaves both stores as they
\* were.
C18_SignUnknownKey ==
    (lastCall.op = "sign" /\ ~lastCall.found) =>
        /\ lastCall.result.tag = "Err"
        /\ Stores = lastCall.before

----------------------------------------------------------------------------
(* Properties of the KDF calls of a derivation (under SpecDerive) *)

\* C19: every derive_scrypt_key call of a derivation returns exactly as
\* many bytes as the len of the parameter record it was called with: 32
\* for the preset, n for the record of the key generation of native
\* length n.
C19_KdfOutputLength ==
    \A a \in 1..Len(deriveLog) :
        \A k \in 1..Len(deriveLog[a].kdf) :
            IsOk(deriveLog[a].kdf[k].out) =>
                deriveLog[a].kdf[k].out.val.len = deriveLog[a].kdf[k].param.len

\* C20: every derivation makes one derive_scrypt_key call, with the preset
\* KDF_SCRYPT, the whole master entropy as password and the prefix
\* followed by the decimal index as salt, and generates the key pair from
\* a deterministic stream seeded with the 32 bytes returned.
C20_SingleKdfCall ==
    \A a \in 1..Len(deriveLog) :
        /\ Len(deriveLog[a].kdf) = 1
        /\ deriveLog[a].kdf[1].password = deriveLog[a].seed
        /\ deriveLog[a].kdf[1].salt = KDF_PATH_PREFIX \o Decimal(deriveLog[a].index)
        /\ deriveLog[a].kdf[1].param = [log_n |-> 10, r |-> 8, p |-> 1, len |-> 32]
        /\ deriveLog[a].kdf[1].out.val.len = 32
        /\ deriveLog[a].result = try_keygen_with_rng(deriveLog[a].kdf[1].out.val)

----------------------------------------------------------------------------
(* Properties of the two stores taken together (under Spec) *)

\* the master secrets the stored payload decrypts to under some password
MasterSecrets ==
    {LoadSeed(pw).val : pw \in {p \in Passwords : IsOk(LoadSeed(p))}}

\* C21: the index of every stored account is the derivation index of its
\* key under the master secret stored at that moment, whatever
\* init_seed_phrase, import_seed_phrase, gen_new_key_pair,
\* recover_accounts and clear_database calls have run or are under way.
C21_IndexIsDerivationIndex ==
    \A seed \in MasterSecrets : \A r \in keys_store :
        r.pub_key = encode(derive_sphincs_key(seed, r.index).val.pub_key)

\* C22: whenever the account store holds a record, the master-secret store
\* holds the master secret, also while a clear_database is suspended
\* between its two clears.
C22_AccountsImplySecret ==
    keys_store # {} => seed_store # {}

\* C23: a password that decrypts the stored master secret decrypts the
\* pri_enc of every stored account, whatever init_seed_phrase,
\* import_seed_phrase, gen_new_key_pair and recover_accounts calls have
\* run.
C23_OnePassword ==
    \A pw \in Passwords :
        IsOk(LoadSeed(pw)) => \A r \in keys_store : IsOk(decrypt(pw, r.pri_enc))

----------------------------------------------------------------------------
(* Properties of the signing macro (under SpecDerive) *)

\* C24: when sphincs_sign! returns, on its normal return as after a
\* failure to construct the private key or a signing error, the copy of
\* the private key it made holds only zeros.
C24_KeyZeroedOnEveryExit ==
    lastSign.outcome # "none" =>
        \A i \in 1..Len(lastSign.pri_key_array) : lastSign.pri_key_array[i] = 0

----------------------------------------------------------------------------
(* Properties of the key generation macro (under SpecDerive) *)

\* C25: for each of the twelve variants three times the native length is
\* at most bip39_compatible_entropy_size, so sphincs_keygen! on a master
\* secret of at least that size does not read out of bounds; on a master
\* secret shorter than the three native lengths it returns an error value
\* and does not abort.
C25_ShortSeedIsError ==
    /\ \A v \in SphincsVariant : 3 * NativeLen(v) <= bip39_compatible_entropy_size(v)
    /\ \A a \in 1..Len(deriveLog) :
           deriveLog[a].fn = "sphincs_keygen" =>
               /\ (\E v \in SphincsVariant :
                        /\ NativeLen(v) = deriveLog[a].n
                        /\ Len(deriveLog[a].seed) >= bip39_compatible_entropy_size(v)) =>
                      deriveLog[a].result.tag # "Panic"
               /\ Len(deriveLog[a].seed) < 3 * deriveLog[a].n =>
                      deriveLog[a].result.tag = "Err"

----------------------------------------------------------------------------
(* Properties of the calls under a wrong password (under Spec) *)

\* C26: gen_new_key_pair, recover_accounts, gen_account_batch and
\* export_seed_phrase called with a password other than the one the stored
\* master secret was encrypted with fail with the authentication failure
\* and leave both stores as they were; gen_account_batch and
\* export_seed_phrase leave both stores as they were when they succeed too.
C26_WrongPasswordNoEffect ==
    /\ (/\ lastCall.op \in {"gen_new_key_pair", "recover_accounts",
                             "gen_account_batch", "export_seed_phrase"}
         /\ lastCall.wrong) =>
            /\ lastCall.result = AuthenticationFailure
            /\ Stores = lastCall.before
    /\ lastCall.op \in {"gen_account_batch", "export_seed_phrase"} =>
            Stores = lastCall.before

C26_Witness ==
    /\ lastCall.op = "recover_accounts"
    /\ lastCall.wrong
    /\ lastCall.result = AuthenticationFailure
    /\ Cardinality(lastCall.before.keys) = 1

----------------------------------------------------------------------------
(* Properties of gen_account_batch (under Spec) *)

\* C27: a gen_account_batch(password, start_index, count) that decrypted
\* the master secret returns exactly count public keys, the i-th the key
\* derived at index start_index + i, also when start_index + count
\* exceeds u32::MAX; it never returns fewer keys.
C27_BatchReturnsCount ==
    (lastCall.op = "gen_account_batch" /\ lastCall.found /\ ~lastCall.wrong) =>
        /\ IsOk(lastCall.result)
        /\ Len(lastCall.result.val) = ToInt(lastCall.count)
        /\ \A i \in 0..(ToInt(lastCall.count) - 1) :
               lastCall.result.val[i + 1] =
                   encode(derive_sphincs_key(lastCall.seed,
                                             ToInt(lastCall.start) + i).val.pub_key)

====
